---- MODULE Spec2Model ----
(***************************************************************************)
(* A model of the vote-integrity core of alx-polly: the server actions of  *)
(* src/app/lib/actions/poll-actions.ts (createPoll, updatePoll, deletePoll,*)
(* submitVote), the in-memory rate limiter of src/lib/rate-limiter.ts, the *)
(* text sanitizer of src/lib/vote-signature.ts and the constraints the     *)
(* migrations put on the polls and votes tables.                           *)
(*                                                                         *)
(* Text is a sequence of one-character strings, so that length, trimming   *)
(* and case folding are computed and not assumed.                          *)
(***************************************************************************)
EXTENDS Integers, Sequences, FiniteSets, TLC

\* ------------------------------------------------------------------ bounds
\* Number of polls createPoll may insert in one behaviour (ids are fresh).
MaxPolls == 1
\* Number of server-action invocations in one behaviour of Spec.
MaxCalls == 3
\* Admitted calls left per rate-limit key in the initial state of Spec.
Budget == 2
\* Number of clock advances in one behaviour of SpecRL.
MaxTicks == 3
\* rejected calls followed in one window of a key
MaxRejected == 2
\* calls of checkRateLimit made at once on one key
MaxConcurrent == 4

\* ------------------------------------------------------- program constants
WindowMs == 60000
MaxRequests == 20
QuestionMin == 10
QuestionMax == 500
OptionMin == 2
OptionMax == 200
OptionsMin == 2
OptionsMax == 10

\* --------------------------------------------------------------------- text
UpperCase == <<"A", "B", "C", "D", "E", "F", "G", "H", "I", "J", "K", "L", "M",
               "N", "O", "P", "Q", "R", "S", "T", "U", "V", "W", "X", "Y", "Z">>
LowerCase == <<"a", "b", "c", "d", "e", "f", "g", "h", "i", "j", "k", "l", "m",
               "n", "o", "p", "q", "r", "s", "t", "u", "v", "w", "x", "y", "z">>
Digits == {"0", "1", "2", "3", "4", "5", "6", "7", "8", "9"}
Whitespace == {" ", "\t", "\n"}

\* String.prototype.toLowerCase on one character
toLowerChar(ch) ==
    IF \E i \in 1..26 : UpperCase[i] = ch
    THEN LowerCase[CHOOSE i \in 1..26 : UpperCase[i] = ch]
    ELSE ch

toLowerCase(s) == [i \in 1..Len(s) |-> toLowerChar(s[i])]

\* the regular expression class \w
IsWordChar(ch) ==
    \/ \E i \in 1..26 : UpperCase[i] = ch \/ LowerCase[i] = ch
    \/ ch \in Digits
    \/ ch = "_"

RECURSIVE TrimStart(_)
TrimStart(s) ==
    IF s # <<>> /\ Head(s) \in Whitespace THEN TrimStart(Tail(s)) ELSE s

RECURSIVE TrimEnd(_)
TrimEnd(s) ==
    IF s # <<>> /\ s[Len(s)] \in Whitespace
    THEN TrimEnd(SubSeq(s, 1, Len(s) - 1))
    ELSE s

\* String.prototype.trim
Trim(s) == TrimEnd(TrimStart(s))

\* the characters of s at the places outside gone, in their order
Keep(s, gone) ==
    LET idx == SelectSeq([i \in 1..Len(s) |-> i], LAMBDA i : i \notin gone)
    IN [k \in 1..Len(idx) |-> s[idx[k]]]

\* .replace(/[<>]/g, '')
StripAngles(s) == SelectSeq(s, LAMBDA ch : ch \notin {"<", ">"})

JsScheme == <<"j", "a", "v", "a", "s", "c", "r", "i", "p", "t", ":">>

\* /javascript:/i matches at place i of s
JsSchemeAt(s, i) ==
    /\ i + Len(JsScheme) - 1 <= Len(s)
    /\ s[i] \in {"j", "J"}
    /\ toLowerCase(SubSeq(s, i, i + Len(JsScheme) - 1)) = JsScheme

\* .replace(/javascript:/gi, ''): no two matches overlap (the text begins
\* with its only "j"), so every match is removed
StripJsScheme(s) ==
    LET starts == {i \in 1..Len(s) : JsSchemeAt(s, i)}
    IN Keep(s, {i \in 1..Len(s) : \E st \in starts : st <= i /\ i < st + Len(JsScheme)})

\* the first place from i on that holds no \w character, or Len(s) + 1
WordEnd(s, i) ==
    IF \E k \in i..Len(s) : ~IsWordChar(s[k])
    THEN CHOOSE k \in i..Len(s) :
            /\ ~IsWordChar(s[k])
            /\ \A m \in i..(k - 1) : IsWordChar(s[m])
    ELSE Len(s) + 1

\* length of the match of /on\w+=/i at place i of s, or 0: "=" is not a \w
\* character, so the greedy run must be followed by "=" at once
HandlerMatch(s, i) ==
    IF /\ i + 1 <= Len(s)
       /\ s[i] \in {"o", "O"} /\ s[i + 1] \in {"n", "N"}
       /\ WordEnd(s, i + 2) > i + 2
       /\ WordEnd(s, i + 2) <= Len(s)
       /\ s[WordEnd(s, i + 2)] = "="
    THEN WordEnd(s, i + 2) - i + 1
    ELSE 0

\* .replace(/on\w+=/gi, ''): two matches that overlap end at the same "=",
\* so the leftmost, which the pass takes, covers the other
StripHandlers(s) ==
    LET starts == {i \in 1..Len(s) : HandlerMatch(s, i) > 0}
    IN Keep(s, {i \in 1..Len(s) :
                   \E st \in starts : st <= i /\ i < st + HandlerMatch(s, st)})

\* sanitizeText: the three replacements in the order of the source, then trim
sanitizeText(text) == Trim(StripHandlers(StripJsScheme(StripAngles(text))))

\* --------------------------------------------------------------- validation
NoError == ""

\* pollQuestionSchema: the checks run on the text as given, in the order
\* they are chained; the first issue is the one reported
questionIssue(q) ==
    IF Len(q) < 1 THEN "Question is required"
    ELSE IF Len(q) < QuestionMin THEN "Question must be at least 10 characters"
    ELSE IF Len(q) > QuestionMax THEN "Question must be less than 500 characters"
    ELSE NoError

\* the element schema of pollOptionsSchema
optionIssue(o) ==
    IF Len(o) < 1 THEN "Option cannot be empty"
    ELSE IF Len(o) < OptionMin THEN "Option must be at least 2 characters"
    ELSE IF Len(o) > OptionMax THEN "Option must be less than 200 characters"
    ELSE NoError

\* variant: the refinement comparing the options as they are
optionsUniqueExact(opts) ==
    Cardinality({Trim(opts[i]) : i \in 1..Len(opts)}) = Len(opts)

\* the refinement of pollOptionsSchema: new Set(lower-cased).size === length
optionsUnique(opts) ==
    Cardinality({toLowerCase(Trim(opts[i])) : i \in 1..Len(opts)}) = Len(opts)

\* pollOptionsSchema: the array's size issues come first, then the elements'
\* issues in order, then the refinement's
optionsIssue(opts) ==
    IF Len(opts) < OptionsMin THEN "At least 2 options are required"
    ELSE IF Len(opts) > OptionsMax THEN "Maximum 10 options allowed"
    ELSE IF \E i \in 1..Len(opts) : optionIssue(opts[i]) # NoError
    THEN optionIssue(opts[CHOOSE i \in 1..Len(opts) :
                            /\ optionIssue(opts[i]) # NoError
                            /\ \A j \in 1..(i - 1) : optionIssue(opts[j]) = NoError])
    ELSE IF ~optionsUnique(opts) THEN "Options must be unique (case-insensitive)"
    ELSE NoError

\* formData.getAll("options").filter(Boolean): empty strings are dropped
filterBoolean(opts) == SelectSeq(opts, LAMBDA o : o # <<>>)

\* variant: the question validated and stored as it was submitted
submittedQuestion(form) == form.question

\* the two sanitizing lines of createPoll and updatePoll
sanitizedQuestion(form) == sanitizeText(form.question)
sanitizedOptions(form) ==
    [i \in 1..Len(filterBoolean(form.options)) |->
        sanitizeText(filterBoolean(form.options)[i])]

\* createPollSchema.safeParse / updatePollSchema.safeParse on the sanitized
\* input: validationResult.error.errors[0].message, or NoError on success
firstError(form) ==
    IF questionIssue(sanitizedQuestion(form)) # NoError
    THEN questionIssue(sanitizedQuestion(form))
    ELSE optionsIssue(sanitizedOptions(form))

\* validationResult.data: the schemas trim what they accept
validatedQuestion(form) == Trim(sanitizedQuestion(form))
validatedOptions(form) ==
    [i \in 1..Len(sanitizedOptions(form)) |-> Trim(sanitizedOptions(form)[i])]

\* ------------------------------------------------------------ the form data
QColor == <<"W", "h", "a", "t", " ", "i", "s", " ", "y", "o", "u", "r", " ",
            "f", "a", "v", "o", "r", "i", "t", "e", " ", "c", "o", "l", "o", "r", "?">>
QBest == <<"W", "h", "i", "c", "h", " ", "c", "o", "l", "o", "r", " ", "i", "s",
           " ", "b", "e", "s", "t", "?">>
Red == <<"R", "e", "d">>
Blue == <<"B", "l", "u", "e">>
Green == <<"G", "r", "e", "e", "n">>
LowRed == <<"r", "e", "d">>

\* the submitted forms the model draws from: two valid ones, of two and of
\* three options, and one whose options repeat ignoring case
FormTwo == [question |-> QColor, options |-> <<Red, Blue>>]
FormThree == [question |-> QBest, options |-> <<Red, <<"<">> \o Blue, Green>>]
FormDup == [question |-> QColor, options |-> <<Red, LowRed>>]

\* ------------------------------------------------------------- rate limiter
\* request headers: an absent header and an empty one are both falsy
NoHeader == <<>>
Loopback == <<"1", "2", "7", ".", "0", ".", "0", ".", "1">>

\* forwardedFor.split(',')[0]
RECURSIVE firstEntry(_)
firstEntry(s) ==
    IF s = <<>> \/ Head(s) = "," THEN <<>>
    ELSE <<Head(s)>> \o firstEntry(Tail(s))

\* variant: x-real-ip looked at before x-forwarded-for
getClientIPRealIPFirst(h) ==
    IF h.realIP # NoHeader THEN h.realIP
    ELSE IF h.forwardedFor # NoHeader THEN Trim(firstEntry(h.forwardedFor))
    ELSE IF h.cfConnectingIP # NoHeader THEN h.cfConnectingIP
    ELSE Loopback

\* getClientIP: x-forwarded-for, then x-real-ip, then cf-connecting-ip
getClientIP(h) ==
    IF h.forwardedFor # NoHeader THEN Trim(firstEntry(h.forwardedFor))
    ELSE IF h.realIP # NoHeader THEN h.realIP
    ELSE IF h.cfConnectingIP # NoHeader THEN h.cfConnectingIP
    ELSE Loopback

\* `${clientIP}:${action}`: an action name holds no ":", so the text after
\* the last ":" is the action and the pair is recovered from the key
rateLimitKey(ip, action) == <<ip, action>>

\* Map.prototype.set
mapSet(m, k, v) == [x \in DOMAIN m \cup {k} |-> IF x = k THEN v ELSE m[x]]
\* Map.prototype.delete of a set of keys
mapDelete(m, ks) == [x \in DOMAIN m \ ks |-> m[x]]

\* variant: the window over as soon as its reset time is reached
windowOverAtReset(store, key, t) == key \notin DOMAIN store \/ t >= store[key].resetTime

\* !entry || now > entry.resetTime
windowOver(store, key, t) == key \notin DOMAIN store \/ t > store[key].resetTime

\* variant: the limit compared with > in place of >=
limitReachedAfter(entry, maxRequests) == entry.count > maxRequests

\* variant: the limit never found reached
limitReachedNever(entry, maxRequests) == FALSE

\* entry.count >= maxRequests
limitReached(entry, maxRequests) == entry.count >= maxRequests

\* variant: a rejected call starting the window's time again
checkRateLimitExtending(store, key, t, windowMs, maxRequests) ==
    IF windowOver(store, key, t)
    THEN [store |-> mapSet(store, key, [count |-> 1, resetTime |-> t + windowMs]),
          allowed |-> TRUE,
          remaining |-> maxRequests - 1,
          resetTime |-> t + windowMs]
    ELSE IF limitReached(store[key], maxRequests)
    THEN [store |-> mapSet(store, key, [count |-> store[key].count,
                                        resetTime |-> t + windowMs]),
          allowed |-> FALSE,
          remaining |-> 0,
          resetTime |-> t + windowMs]
    ELSE [store |-> mapSet(store, key, [count |-> store[key].count + 1,
                                        resetTime |-> store[key].resetTime]),
          allowed |-> TRUE,
          remaining |-> maxRequests - (store[key].count + 1),
          resetTime |-> store[key].resetTime]

\* checkRateLimit: the store after the call and the returned triple
checkRateLimit(store, key, t, windowMs, maxRequests) ==
    IF windowOver(store, key, t)
    THEN [store |-> mapSet(store, key, [count |-> 1, resetTime |-> t + windowMs]),
          allowed |-> TRUE,
          remaining |-> maxRequests - 1,
          resetTime |-> t + windowMs]
    ELSE IF limitReached(store[key], maxRequests)
    THEN [store |-> store,
          allowed |-> FALSE,
          remaining |-> 0,
          resetTime |-> store[key].resetTime]
    ELSE [store |-> mapSet(store, key, [count |-> store[key].count + 1,
                                        resetTime |-> store[key].resetTime]),
          allowed |-> TRUE,
          remaining |-> maxRequests - (store[key].count + 1),
          resetTime |-> store[key].resetTime]

\* the { ok, error } envelope of the server actions
Ok == [ok |-> TRUE, error |-> NoError]
Fail(msg) == [ok |-> FALSE, error |-> msg]

\* rateLimitCheck: checkRateLimit with its default window and maximum
rateLimitCheck(store, key, t) ==
    [store |-> checkRateLimit(store, key, t, WindowMs, MaxRequests).store,
     result |-> IF checkRateLimit(store, key, t, WindowMs, MaxRequests).allowed
                THEN Ok
                ELSE Fail("Too many requests. Please try again later.")]

\* ------------------------------------------------------------------ errors
NoCode == ""
dbError(code) == [code |-> code, message |-> ""]

\* DB_ERROR_MESSAGES
dbErrorCodes == {"23505", "23503", "23502", "42501", "42P01",
                 "PGRST116", "PGRST301", "PGRST302", "PGRST303"}
dbErrorMessage(code) ==
    CASE code = "23505" -> "This action has already been completed."
      [] code = "23503" -> "Referenced item not found."
      [] code = "23502" -> "Required field is missing."
      [] code = "42501" -> "You do not have permission to perform this action."
      [] code = "42P01" -> "Requested resource not found."
      [] code = "PGRST116" -> "Requested resource not found."
      [] code = "PGRST301" -> "You do not have permission to perform this action."
      [] code = "PGRST302" -> "Authentication required."
      [] code = "PGRST303" -> "You do not have permission to perform this action."

\* getFriendlyErrorMessage: the code table first; the messages the model's
\* errors carry are in neither the message table nor any of its patterns
getFriendlyErrorMessage(error) ==
    IF error.code \in dbErrorCodes THEN dbErrorMessage(error.code)
    ELSE "An unexpected error occurred. Please try again."

\* ------------------------------------------------------------------- state
VARIABLES
    polls,          \* the polls table: id -> [user_id, question, options, is_active]
    nextPollId,     \* ids are generated, never reused
    votes,          \* the votes table: a bag of rows (row -> number of copies)
    rateLimitStore, \* rateLimitStore: key -> [count, resetTime]
    now,            \* Date.now()
    call,           \* per caller: the server action it is in, or its last result
    calls,          \* invocations begun
    rlLast,         \* the last result checkRateLimit returned, with its key and time
    rlWin,          \* history: per key, when its window began and the calls in it
    ticks,          \* clock advances made
    pending,        \* the calls of checkRateLimit made at once, each up to its await
    unswept,        \* history: the store of the limiter alone had no cleanup ever run
    input,          \* the arguments of a function evaluated on its own
    output          \* what it returned

vars == <<polls, nextPollId, votes, rateLimitStore, now, call, calls,
          rlLast, rlWin, ticks, pending, unswept, input, output>>
tables == <<polls, nextPollId, votes>>
rlVars == <<rlLast, rlWin, ticks, pending, unswept>>
fnVars == <<input, output>>

\* the requesters: a browser with its user-agent, both behind no proxy
Callers == {"c1", "c2"}
NoUser == "anonymous"
Users == {"u1", "u2"}
\* the session a request of the caller may carry: supabase.auth.getUser()
Sessions(c) == IF c = "c1" THEN {"u1"} ELSE {"u2", NoUser}
Headers(c) == [forwardedFor |-> NoHeader, realIP |-> NoHeader, cfConnectingIP |-> NoHeader]

ActionNames == {"createPoll", "updatePoll", "deletePoll", "submitVote"}
FormNames == {"two", "three", "dup"}
formData(name) ==
    CASE name = "two" -> FormTwo
      [] name = "three" -> FormThree
      [] name = "dup" -> FormDup
\* the outcome of sanitizing and validating each form: the first issue's
\* message, or the parsed data
safeParse ==
    [n \in FormNames |->
        [error |-> firstError(formData(n)),
         question |-> validatedQuestion(formData(n)),
         options |-> validatedOptions(formData(n))]]
\* the ids a caller may name: those createPoll can give out, and one it never does
PollIds == 1..(MaxPolls + 1)
OptionIndexes == {-1, 0, 2}

\* the text of a poll id
DigitChars == <<"0", "1", "2", "3", "4", "5", "6", "7", "8", "9">>
idText(id) == <<DigitChars[id + 1]>>

\* variant: the signed text without the ip
signedDataNoIp(pollId, userAgent, ip) == pollId \o <<":">> \o userAgent

\* `${pollId}:${userAgent}${ip ? `:${ip}` : ''}`
signedData(pollId, userAgent, ip) ==
    pollId \o <<":">> \o userAgent \o (IF ip # NoHeader THEN <<":">> \o ip ELSE <<>>)
\* createHmac('sha256', secret).update(data).digest('hex'): the digest of the
\* data under the one secret, two digests equal exactly when the data are
hmac(data) == <<"#">> \o data
generateVoteSignature(pollId, userAgent, ip) == hmac(signedData(pollId, userAgent, ip))
\* variant: the verification recomputing the signature without the ip
verifyVoteSignatureNoIp(pollId, userAgent, signature, ip) ==
    generateVoteSignature(pollId, userAgent, NoHeader) = signature

verifyVoteSignature(pollId, userAgent, signature, ip) ==
    generateVoteSignature(pollId, userAgent, ip) = signature

\* the user-agent header of the caller's browser
UserAgent(c) == IF c = "c1" THEN <<"F", "x">> ELSE <<"C", "r">>
\* the ip the poll page signs: the first x-forwarded-for entry, or none
pageIP(h) ==
    IF h.forwardedFor # NoHeader THEN Trim(firstEntry(h.forwardedFor)) ELSE NoHeader
\* the signature the poll page puts in the caller's vote_sig cookie
issuedSignature(c, id) ==
    generateVoteSignature(idText(id), UserAgent(c), pageIP(Headers(c)))

\* the third argument of submitVote is the caller's to choose: a signature
\* the page issued, to this caller or to another, or none
NoSig == <<>>
Signatures == {issuedSignature(c, id) : c \in Callers, id \in 1..MaxPolls} \cup {NoSig}

NoForm == "none"
Idle == [op |-> "none", pc |-> "idle", user |-> NoUser, poll |-> 0, form |-> NoForm,
         idx |-> 0, sig |-> NoSig, res |-> Ok, prior |-> FALSE, target |-> "none"]

\* the caller is between two invocations
Free(c) == call[c].pc \in {"idle", "done", "threw"}

\* the invocation begins: rateLimitCheck(action) is its first statement
begin(c, action, rec) ==
    LET r == rateLimitCheck(rateLimitStore,
                            rateLimitKey(getClientIP(Headers(c)), action), now)
    IN /\ Free(c)
       /\ calls < MaxCalls
       /\ calls' = calls + 1
       /\ rateLimitStore' = r.store
       /\ call' = [call EXCEPT ![c] =
                     IF r.result.ok
                     THEN [rec EXCEPT !.op = action, !.pc = "body"]
                     ELSE [rec EXCEPT !.op = action, !.pc = "done", !.res = r.result]]

finish(c, result) == [call[c] EXCEPT !.pc = "done", !.res = result]

\* ---------------------------------------------------------------- the store
\* variant: the update and the delete filtered by id alone
ownedRowsAnyUser(ps, id, user) == {i \in DOMAIN ps : i = id}

\* .eq("id", id).eq("user_id", user.id): the rows an owner-filtered update or
\* delete touches (the polls_update_owner and polls_delete_owner policies
\* state the same condition)
ownedRows(ps, id, user) == {i \in DOMAIN ps : i = id /\ ps[i].user_id = user}

\* variant: the votes table without idx_votes_poll_signature_unique
insertVoteErrorNoIndex(vs, ps, v) ==
    IF ~(v.poll_id \in DOMAIN ps /\ ps[v.poll_id].is_active) THEN "42501"
    ELSE IF v.poll_id \notin DOMAIN ps THEN "23503"
    ELSE NoCode

\* variant: the unique index taken over (poll_id, signature, option_index)
insertVoteErrorPerOption(vs, ps, v) ==
    IF ~(v.poll_id \in DOMAIN ps /\ ps[v.poll_id].is_active) THEN "42501"
    ELSE IF /\ v.signature # NoSig
            /\ \E w \in DOMAIN vs : /\ w.poll_id = v.poll_id
                                    /\ w.signature = v.signature
                                    /\ w.option_index = v.option_index
    THEN "23505"
    ELSE IF v.poll_id \notin DOMAIN ps THEN "23503"
    ELSE NoCode

\* the checks an insert into votes passes, in the order the database makes
\* them: the votes_insert_public policy, the unique index on
\* (poll_id, signature) WHERE signature IS NOT NULL, the foreign key
insertVoteError(vs, ps, v) ==
    IF ~(v.poll_id \in DOMAIN ps /\ ps[v.poll_id].is_active) THEN "42501"
    ELSE IF /\ v.signature # NoSig
            /\ \E w \in DOMAIN vs : /\ w.poll_id = v.poll_id
                                    /\ w.signature = v.signature
    THEN "23505"
    ELSE IF v.poll_id \notin DOMAIN ps THEN "23503"
    ELSE NoCode

\* one more row in the votes table
insertRow(vs, v) ==
    [w \in DOMAIN vs \cup {v} |->
        IF w = v THEN (IF v \in DOMAIN vs THEN vs[v] + 1 ELSE 1) ELSE vs[w]]

\* variant: a delete that clears the votes table whatever rows it removed
cascadeAll(vs, gone) == [v \in {} |-> 0]

\* variant: votes.poll_id without ON DELETE CASCADE and without its check
cascadeNone(vs, gone) == vs

\* votes.poll_id REFERENCES polls(id) ON DELETE CASCADE
cascade(vs, gone) == [v \in {w \in DOMAIN vs : w.poll_id \notin gone} |-> vs[v]]

\* the votes of poll id that carry signature sig
votesOf(vs, id, sig) ==
    {v \in DOMAIN vs : v.poll_id = id /\ v.signature = sig}

\* the state of the row a mutation aims at, as seen by its store call
targetOf(id, user) ==
    IF id \notin DOMAIN polls THEN "absent"
    ELSE IF polls[id].user_id = user THEN "own"
    ELSE "foreign"

\* --------------------------------------------------------------- createPoll
\* variant: the session looked at before the input
bodyFailureAuthFirst(form, user) ==
    IF user = NoUser THEN "You must be logged in"
    ELSE IF safeParse[form].error # NoError THEN safeParse[form].error
    ELSE NoError

\* the checks createPoll and updatePoll make between the rate limit and the
\* store call, in their order: safeParse, then getUser; the error of the
\* first that fails
bodyFailure(form, user) ==
    IF safeParse[form].error # NoError THEN safeParse[form].error
    ELSE IF user = NoUser THEN "You must be logged in"
    ELSE NoError

\* createPoll(formData), up to the rate-limit check
createPoll(c, user, form) ==
    /\ begin(c, "createPoll", [Idle EXCEPT !.user = user, !.form = form])
    /\ UNCHANGED <<tables, now, rlVars, fnVars>>

\* variant: the insert without its user_id column
newPollUnowned(user, form) ==
    [user_id |-> NoUser,
     question |-> safeParse[form].question,
     options |-> safeParse[form].options,
     is_active |-> TRUE]

\* the row createPoll inserts; is_active takes its default
newPoll(user, form) ==
    [user_id |-> user,
     question |-> safeParse[form].question,
     options |-> safeParse[form].options,
     is_active |-> TRUE]

\* the rest of createPoll: sanitize, validate, getUser, insert. A poll past
\* MaxPolls is not inserted: the invocation stays where it is.
createPollStore(c) ==
    /\ call[c].op = "createPoll" /\ call[c].pc = "body"
    /\ IF bodyFailure(call[c].form, call[c].user) # NoError
       THEN /\ call' = [call EXCEPT ![c] =
                          finish(c, Fail(bodyFailure(call[c].form, call[c].user)))]
            /\ UNCHANGED <<polls, nextPollId>>
       ELSE /\ nextPollId <= MaxPolls
            /\ polls' = mapSet(polls, nextPollId, newPoll(call[c].user, call[c].form))
            /\ nextPollId' = nextPollId + 1
            /\ call' = [call EXCEPT ![c] = finish(c, Ok)]
    /\ UNCHANGED <<votes, rateLimitStore, now, calls, rlVars, fnVars>>

\* --------------------------------------------------------------- updatePoll
updatePoll(c, user, id, form) ==
    /\ begin(c, "updatePoll", [Idle EXCEPT !.user = user, !.poll = id, !.form = form])
    /\ UNCHANGED <<tables, now, rlVars, fnVars>>

\* variant: updatePoll reporting a failure whatever the update matched
updatePollReplyFailed(rows) ==
    Fail("Poll not found or you don't have permission to update it.")

\* the reply to the rows .update(...).eq(...).eq(...).select() returned
updatePollReply(rows) ==
    IF rows = {}
    THEN Fail("Poll not found or you don't have permission to update it.")
    ELSE Ok

updatePollStore(c) ==
    /\ call[c].op = "updatePoll" /\ call[c].pc = "body"
    /\ IF bodyFailure(call[c].form, call[c].user) # NoError
       THEN /\ call' = [call EXCEPT ![c] =
                          finish(c, Fail(bodyFailure(call[c].form, call[c].user)))]
            /\ UNCHANGED polls
       ELSE LET rows == ownedRows(polls, call[c].poll, call[c].user)
            IN /\ polls' = [i \in DOMAIN polls |->
                              IF i \in rows
                              THEN [polls[i] EXCEPT
                                      !.question = safeParse[call[c].form].question,
                                      !.options = safeParse[call[c].form].options]
                              ELSE polls[i]]
               /\ call' = [call EXCEPT ![c] =
                             [finish(c, updatePollReply(rows)) EXCEPT
                                !.target = targetOf(call[c].poll, call[c].user)]]
    /\ UNCHANGED <<nextPollId, votes, rateLimitStore, now, calls, rlVars, fnVars>>

\* --------------------------------------------------------------- deletePoll
deletePoll(c, user, id) ==
    /\ begin(c, "deletePoll", [Idle EXCEPT !.user = user, !.poll = id])
    /\ UNCHANGED <<tables, now, rlVars, fnVars>>

\* variant: deletePoll telling a missing poll from another user's
deletePollReplyLeaky(ps, id, user) ==
    IF id \notin DOMAIN ps THEN Fail("Poll not found.")
    ELSE IF ps[id].user_id # user
    THEN Fail("You don't have permission to delete this poll.")
    ELSE Ok

\* the reply of deletePoll to an authenticated caller, from the rows its
\* owner-filtered delete removed
deletePollReply(ps, id, user) ==
    IF ownedRows(ps, id, user) = {}
    THEN Fail("Poll not found or you don't have permission to delete it.")
    ELSE Ok

deletePollStore(c) ==
    /\ call[c].op = "deletePoll" /\ call[c].pc = "body"
    /\ IF call[c].user = NoUser
       THEN /\ call' = [call EXCEPT ![c] = finish(c, Fail("You must be logged in"))]
            /\ UNCHANGED <<polls, votes>>
       ELSE LET rows == ownedRows(polls, call[c].poll, call[c].user)
            IN /\ polls' = mapDelete(polls, rows)
               /\ votes' = cascade(votes, rows)
               /\ call' = [call EXCEPT ![c] =
                             [finish(c, deletePollReply(polls, call[c].poll, call[c].user))
                                EXCEPT !.target = targetOf(call[c].poll, call[c].user)]]
    /\ UNCHANGED <<nextPollId, rateLimitStore, now, calls, rlVars, fnVars>>

\* --------------------------------------------------------------- submitVote
\* submitVote(pollId, optionIndex, voteSignature), up to the rate-limit
\* check; prior records whether a vote of this poll and signature was stored
\* when the invocation began
submitVote(c, user, id, idx, sig) ==
    /\ begin(c, "submitVote",
             [Idle EXCEPT !.user = user, !.poll = id, !.idx = idx, !.sig = sig,
                          !.prior = (votesOf(votes, id, sig) # {})])
    /\ UNCHANGED <<tables, now, rlVars, fnVars>>

\* typeof optionIndex !== 'number' || optionIndex < 0
invalidOption(idx) == idx < 0

\* variant: submitVote without its test of the signature
missingSignatureNever(sig) == FALSE

\* !voteSignature: the argument left out, or the empty string
missingSignature(sig) == sig = NoSig

\* getUser, the select of the poll's id, and the two checks on the arguments
submitVoteLookup(c) ==
    /\ call[c].op = "submitVote" /\ call[c].pc = "body"
    /\ call' = [call EXCEPT ![c] =
                  IF call[c].poll \notin DOMAIN polls
                  THEN finish(c, Fail("Poll not found."))
                  ELSE IF invalidOption(call[c].idx)
                  THEN finish(c, Fail("Invalid option selected."))
                  ELSE IF missingSignature(call[c].sig)
                  THEN finish(c, Fail("Vote signature required."))
                  ELSE [call[c] EXCEPT !.pc = "insert"]]
    /\ UNCHANGED <<tables, rateLimitStore, now, calls, rlVars, fnVars>>

\* variant: submitVote without its branch for code 23505
submitVoteReplyGeneric(code) ==
    IF code = NoCode THEN Ok ELSE Fail(getFriendlyErrorMessage(dbError(code)))

\* the reply to the error code of the insert into votes
submitVoteReply(code) ==
    IF code = NoCode THEN Ok
    ELSE IF code = "23505" THEN Fail("You have already voted on this poll.")
    ELSE Fail(getFriendlyErrorMessage(dbError(code)))

newVote(c) ==
    [poll_id |-> call[c].poll,
     user_id |-> call[c].user,
     option_index |-> call[c].idx,
     signature |-> call[c].sig]

submitVoteInsert(c) ==
    /\ call[c].op = "submitVote" /\ call[c].pc = "insert"
    /\ LET code == insertVoteError(votes, polls, newVote(c))
       IN /\ votes' = IF code = NoCode THEN insertRow(votes, newVote(c)) ELSE votes
          /\ call' = [call EXCEPT ![c] = finish(c, submitVoteReply(code))]
    /\ UNCHANGED <<polls, nextPollId, rateLimitStore, now, calls, rlVars, fnVars>>

\* ------------------------------------------------------------ specification
\* every key has Budget admitted calls left in its window: the state after
\* MaxRequests - Budget calls of each action that changed no table
warmStore ==
    [k \in {rateLimitKey(Loopback, a) : a \in ActionNames} |->
        [count |-> MaxRequests - Budget, resetTime |-> WindowMs]]

\* no call of checkRateLimit is under way
NoPending == <<>>
NoResult == [key |-> <<>>, at |-> 0, swept |-> FALSE, allowed |-> TRUE, remaining |-> 0,
             resetTime |-> 0]
NoInput == [fn |-> "none"]
NoOutput == [fn |-> "none"]

Init ==
    /\ polls = <<>>
    /\ nextPollId = 1
    /\ votes = <<>>
    /\ rateLimitStore = warmStore
    /\ now = 0
    /\ call = [c \in Callers |-> Idle]
    /\ calls = 0
    /\ rlLast = NoResult
    /\ rlWin = <<>>
    /\ ticks = 0
    /\ pending = NoPending
    /\ unswept = <<>>
    /\ input = NoInput
    /\ output = NoOutput

Next ==
    \/ \E c \in Callers, u \in Users \cup {NoUser}, f \in FormNames :
          u \in Sessions(c) /\ createPoll(c, u, f)
    \/ \E c \in Callers : createPollStore(c)
    \/ \E c \in Callers, u \in Users \cup {NoUser}, id \in PollIds, f \in FormNames :
          u \in Sessions(c) /\ updatePoll(c, u, id, f)
    \/ \E c \in Callers : updatePollStore(c)
    \/ \E c \in Callers, u \in Users \cup {NoUser}, id \in PollIds :
          u \in Sessions(c) /\ deletePoll(c, u, id)
    \/ \E c \in Callers : deletePollStore(c)
    \/ \E c \in Callers, u \in Users \cup {NoUser}, id \in PollIds,
          i \in OptionIndexes, s \in Signatures :
          u \in Sessions(c) /\ submitVote(c, u, id, i, s)
    \/ \E c \in Callers : submitVoteLookup(c)
    \/ \E c \in Callers : submitVoteInsert(c)

Spec == Init /\ [][Next]_vars

\* ------------------------------------------------------- the limiter alone
\* the requests whose keys SpecRL follows: one action from a direct client
\* and from one behind a proxy
DirectHeaders == [forwardedFor |-> NoHeader, realIP |-> NoHeader, cfConnectingIP |-> NoHeader]
ProxiedHeaders == [forwardedFor |-> <<"7", ",", " ", "8">>, realIP |-> <<"9">>,
                   cfConnectingIP |-> NoHeader]
RLRequests == {[headers |-> DirectHeaders, action |-> "submitVote"],
               [headers |-> ProxiedHeaders, action |-> "submitVote"]}

\* the window of the key a call at time t falls in, and its place in it; the
\* history keeps whether a call of an earlier window of the key was rejected,
\* and how many calls of this window and of the one before it were
windowAt(win, key, t) ==
    IF key \notin DOMAIN win
    THEN [start |-> t, n |-> 1, limited |-> FALSE, refused |-> 0, refusedBefore |-> 0]
    ELSE IF t > win[key].start + WindowMs
    THEN [start |-> t, n |-> 1, limited |-> win[key].limited \/ win[key].rejected,
          refused |-> 0, refusedBefore |-> win[key].refused]
    ELSE [win[key] EXCEPT !.n = @ + 1]

\* one call of rateLimitCheck(action): getClientIP on the request's headers,
\* then checkRateLimit on the key. A window is followed up to MaxRejected
\* rejected calls.
RLCheck(req) ==
    LET key == rateLimitKey(getClientIP(req.headers), req.action)
        r == checkRateLimit(rateLimitStore, key, now, WindowMs, MaxRequests)
        w == windowAt(rlWin, key, now)
    IN /\ w.n <= MaxRequests + MaxRejected
       /\ rateLimitStore' = r.store
       /\ rlLast' = [key |-> key, at |-> now,
                     swept |-> key \in DOMAIN unswept \ DOMAIN rateLimitStore,
                     allowed |-> r.allowed,
                     remaining |-> r.remaining, resetTime |-> r.resetTime]
       /\ unswept' = checkRateLimit(unswept, key, now, WindowMs, MaxRequests).store
       /\ rlWin' = mapSet(rlWin, key,
                          [start |-> w.start, n |-> w.n, limited |-> w.limited,
                           rejected |-> ~r.allowed,
                           refused |-> w.refused + (IF r.allowed THEN 0 ELSE 1),
                           refusedBefore |-> w.refusedBefore])
       /\ UNCHANGED <<tables, now, call, calls, ticks, pending, fnVars>>

\* Date.now() moves on: by a millisecond, or by the length of a window
Tick(d) ==
    /\ ticks < MaxTicks
    /\ ticks' = ticks + 1
    /\ now' = now + d
    /\ UNCHANGED <<tables, rateLimitStore, call, calls, rlLast, rlWin, pending, unswept,
                   fnVars>>

\* variant: an entry deleted as soon as its reset time is reached
expiredAtReset(store, t) == {k \in DOMAIN store : t >= store[k].resetTime}

\* variant: the cleanup deleting every entry
expiredAll(store, t) == DOMAIN store

\* the entries the setInterval callback deletes: now > entry.resetTime
expired(store, t) == {k \in DOMAIN store : t > store[k].resetTime}

\* the cleanup callback runs and finds entries to delete
Sweep ==
    /\ expired(rateLimitStore, now) # {}
    /\ rateLimitStore' = mapDelete(rateLimitStore, expired(rateLimitStore, now))
    /\ UNCHANGED <<tables, now, call, calls, rlVars, fnVars>>

InitRL ==
    /\ polls = <<>>
    /\ nextPollId = 1
    /\ votes = <<>>
    /\ rateLimitStore = <<>>
    /\ now = 0
    /\ call = [c \in Callers |-> Idle]
    /\ calls = 0
    /\ rlLast = NoResult
    /\ rlWin = <<>>
    /\ ticks = 0
    /\ pending = NoPending
    /\ unswept = <<>>
    /\ input = NoInput
    /\ output = NoOutput

NextRL ==
    \/ \E req \in RLRequests : RLCheck(req)
    \/ \E d \in {1, WindowMs} : Tick(d)
    \/ Sweep

SpecRL == InitRL /\ [][NextRL]_vars

\* ------------------------------------------- checks on one key made at once
\* the requests that call checkRateLimit together: one client, one action
Requests == 1..MaxConcurrent
ConcKey == rateLimitKey(getClientIP(DirectHeaders), "submitVote")

\* variant: the entry taken from the store as it was when the call was made
storeReadAtCall(live, seen) == seen

\* rateLimitStore.get(key) runs after `await getClientIP()`, in the same turn
\* as the set: it reads the store as it is then
storeRead(live, seen) == live

\* checkRateLimit is called and waits at `await getClientIP()`
ConcCall(p) ==
    /\ pending[p].pc = "idle"
    /\ pending' = [pending EXCEPT ![p] = [pc |-> "awaiting", seen |-> rateLimitStore,
                                          allowed |-> FALSE]]
    /\ UNCHANGED <<tables, rateLimitStore, now, call, calls, rlLast, rlWin, ticks, unswept,
                   fnVars>>

\* the call resumes and runs to its return without another await: Date.now(),
\* get, the comparisons, set
ConcResume(p) ==
    LET r == checkRateLimit(storeRead(rateLimitStore, pending[p].seen), ConcKey, now,
                            WindowMs, MaxRequests)
        w == windowAt(rlWin, ConcKey, now)
    IN /\ pending[p].pc = "awaiting"
       /\ rateLimitStore' = r.store
       /\ pending' = [pending EXCEPT ![p] = [pc |-> "done", seen |-> <<>>,
                                             allowed |-> r.allowed]]
       /\ rlLast' = [key |-> ConcKey, at |-> now, swept |-> FALSE, allowed |-> r.allowed,
                     remaining |-> r.remaining, resetTime |-> r.resetTime]
       /\ rlWin' = mapSet(rlWin, ConcKey,
                          [start |-> w.start, n |-> w.n, limited |-> w.limited,
                           rejected |-> ~r.allowed,
                           refused |-> w.refused + (IF r.allowed THEN 0 ELSE 1),
                           refusedBefore |-> w.refusedBefore])
       /\ UNCHANGED <<tables, now, call, calls, ticks, unswept, fnVars>>

\* the window the calls arrive in: a new one, or one with Budget calls left
InitConc ==
    /\ polls = <<>>
    /\ nextPollId = 1
    /\ votes = <<>>
    /\ \/ rateLimitStore = <<>> /\ rlWin = <<>>
       \/ /\ rateLimitStore = warmStore
          /\ rlWin = [k \in DOMAIN warmStore |->
                        [start |-> 0, n |-> warmStore[k].count, limited |-> FALSE,
                         rejected |-> FALSE, refused |-> 0, refusedBefore |-> 0]]
    /\ now = 0
    /\ call = [c \in Callers |-> Idle]
    /\ calls = 0
    /\ rlLast = NoResult
    /\ ticks = 0
    /\ pending = [p \in Requests |-> [pc |-> "idle", seen |-> <<>>, allowed |-> FALSE]]
    /\ unswept = <<>>
    /\ input = NoInput
    /\ output = NoOutput

NextConc ==
    \/ \E p \in Requests : ConcCall(p)
    \/ \E p \in Requests : ConcResume(p)

SpecConc == InitConc /\ [][NextConc]_vars

\* ------------------------------------------------- collaborators that fail
\* `await createClient()` raises (server.ts: missing environment variables):
\* the server actions have no try/catch, the fault leaves the action
createClientThrows(c) ==
    /\ call[c].pc = "body"
    /\ call' = [call EXCEPT ![c] = [call[c] EXCEPT !.pc = "threw"]]
    /\ UNCHANGED <<tables, rateLimitStore, now, calls, rlVars, fnVars>>

authError == [code |-> NoCode, message |-> "Auth session missing!"]

\* supabase.auth.getUser() returns an error: createPoll, updatePoll and
\* deletePoll reply with its friendly message (submitVote does not read it)
getUserFails(c) ==
    /\ call[c].pc = "body"
    /\ \/ call[c].op = "deletePoll"
       \/ /\ call[c].op \in {"createPoll", "updatePoll"}
          /\ safeParse[call[c].form].error = NoError
    /\ call' = [call EXCEPT ![c] = finish(c, Fail(getFriendlyErrorMessage(authError)))]
    /\ UNCHANGED <<tables, rateLimitStore, now, calls, rlVars, fnVars>>

\* the insert, update or delete returns an error and changes no row
storeFails(c, error) ==
    /\ \/ call[c].op = "submitVote" /\ call[c].pc = "insert"
       \/ /\ call[c].pc = "body"
          /\ call[c].user # NoUser
          /\ \/ call[c].op = "deletePoll"
             \/ /\ call[c].op \in {"createPoll", "updatePoll"}
                /\ safeParse[call[c].form].error = NoError
    /\ call' = [call EXCEPT ![c] =
                  finish(c, IF call[c].op = "submitVote"
                            THEN submitVoteReply(error.code)
                            ELSE Fail(getFriendlyErrorMessage(error)))]
    /\ UNCHANGED <<tables, rateLimitStore, now, calls, rlVars, fnVars>>

NextFault ==
    \/ Next
    \/ \E c \in Callers : createClientThrows(c)
    \/ \E c \in Callers : getUserFails(c)
    \/ \E c \in Callers : storeFails(c, dbError("42P01"))

SpecFault == Init /\ [][NextFault]_vars

\* ---------------------------------------------------------------- the reads
\* variant: the select of getUserPolls without its user_id filter
selectByUserAll(ps, user) == DOMAIN ps

\* .eq("user_id", user.id): the rows the select of getUserPolls matches
selectByUser(ps, user) == {i \in DOMAIN ps : ps[i].user_id = user}

\* a row as a select returns it, the id with the columns
pollRow(ps, i) ==
    [id |-> i, user_id |-> ps[i].user_id, question |-> ps[i].question,
     options |-> ps[i].options, is_active |-> ps[i].is_active]

\* .order("created_at", { ascending: false }): the latest poll first (ids
\* are handed out in the order of creation)
RECURSIVE orderDescending(_, _)
orderDescending(ps, ids) ==
    IF ids = {} THEN <<>>
    ELSE LET latest == CHOOSE i \in ids : \A j \in ids : j <= i
         IN <<pollRow(ps, latest)>> \o orderDescending(ps, ids \ {latest})

NoPoll == [id |-> 0]

\* what getUserPolls returns to the session user
getUserPollsReply(ps, user) ==
    IF user = NoUser THEN [polls |-> <<>>, error |-> "Not authenticated"]
    ELSE [polls |-> orderDescending(ps, selectByUser(ps, user)), error |-> NoError]

\* what getPollById returns: .single() fails with PGRST116 on no row
getPollByIdReply(ps, id, user) ==
    IF user = NoUser THEN [poll |-> NoPoll, error |-> "Authentication required"]
    ELSE IF ownedRows(ps, id, user) = {}
    THEN [poll |-> NoPoll, error |-> getFriendlyErrorMessage(dbError("PGRST116"))]
    ELSE [poll |-> pollRow(ps, id), error |-> NoError]

\* getUserPolls(): no rate-limit check, one select
getUserPolls(c, user) ==
    /\ Free(c)
    /\ calls < MaxCalls
    /\ calls' = calls + 1
    /\ call' = [call EXCEPT ![c] =
                  [Idle EXCEPT !.op = "getUserPolls", !.pc = "done", !.user = user,
                               !.res = getUserPollsReply(polls, user)]]
    /\ UNCHANGED <<tables, rateLimitStore, now, rlVars, fnVars>>

\* getPollById(id): no rate-limit check, one select
getPollById(c, user, id) ==
    /\ Free(c)
    /\ calls < MaxCalls
    /\ calls' = calls + 1
    /\ call' = [call EXCEPT ![c] =
                  [Idle EXCEPT !.op = "getPollById", !.pc = "done", !.user = user,
                               !.poll = id, !.res = getPollByIdReply(polls, id, user)]]
    /\ UNCHANGED <<tables, rateLimitStore, now, rlVars, fnVars>>

\* the polls tables the reads are made on: every table of polls with ids up
\* to MaxPolls + 1, each poll created by one of the users
SeedPolls ==
    UNION {[ids -> {newPoll(u, "two") : u \in Users}] : ids \in SUBSET (1..(MaxPolls + 1))}

InitRead ==
    /\ polls \in SeedPolls
    /\ nextPollId = MaxPolls + 2
    /\ votes = <<>>
    /\ rateLimitStore = warmStore
    /\ now = 0
    /\ call = [c \in Callers |-> Idle]
    /\ calls = 0
    /\ rlLast = NoResult
    /\ rlWin = <<>>
    /\ ticks = 0
    /\ pending = NoPending
    /\ unswept = <<>>
    /\ input = NoInput
    /\ output = NoOutput

NextRead ==
    \/ \E c \in Callers, u \in Users \cup {NoUser} :
          u \in Sessions(c) /\ getUserPolls(c, u)
    \/ \E c \in Callers, u \in Users \cup {NoUser}, id \in PollIds :
          u \in Sessions(c) /\ getPollById(c, u, id)
    \/ \E c \in Callers, u \in Users \cup {NoUser}, id \in PollIds :
          u \in Sessions(c) /\ deletePoll(c, u, id)
    \/ \E c \in Callers : deletePollStore(c)

SpecRead == InitRead /\ [][NextRead]_vars

\* ------------------------------------------------- functions on their own
Rep(ch, n) == [i \in 1..n |-> ch]

\* questions at both ends of the length range, and ones that sanitizing
\* shortens
FnQuestions ==
    {Rep("q", n) : n \in {0, QuestionMin - 1, QuestionMin, QuestionMax, QuestionMax + 1}}
    \cup {<<"<">> \o Rep("q", QuestionMin - 1), <<" ">> \o Rep("q", QuestionMin - 1),
          <<"<">> \o Rep("q", QuestionMax)}

\* option texts: empty, short, long, differing in case only, and ones that
\* sanitizing changes
FnOptionPool ==
    {<<>>, Rep("a", 1), Rep("a", OptionMin), Rep("A", OptionMin), <<"a", "B">>,
     <<"a", "b">>, <<"a", "b", " ">>, <<"<", "b">>,
     Rep("b", OptionMax), Rep("b", OptionMax + 1), Rep("B", OptionMax)}

\* n options, no two alike
distinctList(n) == [i \in 1..n |-> <<LowerCase[i], LowerCase[i]>>]
\* n options, the last the first in another case
dupList(n) ==
    [i \in 1..n |-> IF i = n THEN <<UpperCase[1], LowerCase[1]>> ELSE distinctList(n)[i]]

FnOptionLists ==
    {<<>>}
    \cup {<<o>> : o \in FnOptionPool}
    \cup {<<o1, o2>> : o1 \in FnOptionPool, o2 \in FnOptionPool}
    \cup {distinctList(n) : n \in {OptionsMin, OptionsMax, OptionsMax + 1}}
    \cup {dupList(n) : n \in {OptionsMin, OptionsMax, OptionsMax + 1}}
    \cup {<<<<>>, <<>>, Rep("a", OptionMin), <<"a", "b">>>>}

ValidateInputs ==
    {[fn |-> "validate", arg |-> [question |-> q, options |-> os]] :
        q \in FnQuestions, os \in FnOptionLists}

\* arguments of generateVoteSignature: poll ids, user-agents and ips, some
\* holding the ":" that joins them; no ip is NoHeader
SignArgs ==
    [pollId : {<<"1">>, <<"2">>, <<"1", ":">>},
     userAgent : {<<>>, <<"F">>, <<"C">>, <<"F", ":", "9">>},
     ip : {NoHeader, <<"9">>, <<"8">>, <<"9", ":", "9">>}]

SignInputs == {[fn |-> "sign", arg |-> a, other |-> b] : a \in SignArgs, b \in SignArgs}

\* the three headers getClientIP reads: each missing or empty (NoHeader), or
\* with a value; x-forwarded-for with one entry, with several, with spaces
\* around the first, and with an empty first entry
HeaderSets ==
    [forwardedFor : {NoHeader, <<"7">>, <<"7", ",", " ", "8">>, <<" ", "7", " ", ",", "8">>,
                     <<",", "8">>, <<" ">>},
     realIP : {NoHeader, <<"9">>, <<" ", "9">>},
     cfConnectingIP : {NoHeader, <<"5">>}]

IPInputs == {[fn |-> "ip", arg |-> h] : h \in HeaderSets}

\* texts for sanitizeText: plain, with tags, with the scheme in both cases,
\* with a handler, and with one removable piece set inside another
SanitizeTexts ==
    {<<>>, <<"a", "b">>, <<" ", "a", " ">>,
     <<"<", "b", ">", "a", "<", "/", "b", ">">>,
     JsScheme \o <<"x">>,
     <<"J", "A", "V", "A", "S", "C", "R", "I", "P", "T", ":", "x">>,
     <<"o", "n", "c", "l", "i", "c", "k", "=", "x">>,
     <<"j", "a", "v", "a", "<", "s", "c", "r", "i", "p", "t", ":">>,
     <<"j", "a">> \o JsScheme \o <<"v", "a", "s", "c", "r", "i", "p", "t", ":">>,
     <<"j", "a", "v", "a", "s", "o", "n", "x", "=", "c", "r", "i", "p", "t", ":">>,
     <<"o", "o", "n", "x", "=", "n", "y", "=">>}

SanitizeInputs == {[fn |-> "sanitize", arg |-> t] : t \in SanitizeTexts}

FnInputs == ValidateInputs \cup SignInputs \cup IPInputs \cup SanitizeInputs

\* the sanitizing and validating lines of createPoll and updatePoll on one
\* form: the first issue's message, or the parsed data
Validate ==
    /\ input.fn = "validate"
    /\ output = NoOutput
    /\ output' = [fn |-> "validate",
                  error |-> firstError(input.arg),
                  question |-> validatedQuestion(input.arg),
                  options |-> validatedOptions(input.arg)]
    /\ UNCHANGED <<tables, rateLimitStore, now, call, calls, rlVars, input>>

\* generateVoteSignature on two argument triples, and verifyVoteSignature
\* on the first triple with the signature made from it
Sign ==
    /\ input.fn = "sign"
    /\ output = NoOutput
    /\ output' =
          [fn |-> "sign",
           data |-> signedData(input.arg.pollId, input.arg.userAgent, input.arg.ip),
           signature |-> generateVoteSignature(input.arg.pollId, input.arg.userAgent,
                                               input.arg.ip),
           verified |-> verifyVoteSignature(
                            input.arg.pollId, input.arg.userAgent,
                            generateVoteSignature(input.arg.pollId, input.arg.userAgent,
                                                  input.arg.ip),
                            input.arg.ip),
           otherData |-> signedData(input.other.pollId, input.other.userAgent,
                                    input.other.ip),
           otherSignature |-> generateVoteSignature(input.other.pollId,
                                                    input.other.userAgent, input.other.ip)]
    /\ UNCHANGED <<tables, rateLimitStore, now, call, calls, rlVars, input>>

\* getClientIP on the headers of one request
ClientIP ==
    /\ input.fn = "ip"
    /\ output = NoOutput
    /\ output' = [fn |-> "ip", ip |-> getClientIP(input.arg)]
    /\ UNCHANGED <<tables, rateLimitStore, now, call, calls, rlVars, input>>

\* sanitizeText on one text, and on its own result
Sanitize ==
    /\ input.fn = "sanitize"
    /\ output = NoOutput
    /\ output' = [fn |-> "sanitize",
                  text |-> sanitizeText(input.arg),
                  again |-> sanitizeText(sanitizeText(input.arg))]
    /\ UNCHANGED <<tables, rateLimitStore, now, call, calls, rlVars, input>>

InitFn ==
    /\ polls = <<>>
    /\ nextPollId = 1
    /\ votes = <<>>
    /\ rateLimitStore = <<>>
    /\ now = 0
    /\ call = [c \in Callers |-> Idle]
    /\ calls = 0
    /\ rlLast = NoResult
    /\ rlWin = <<>>
    /\ ticks = 0
    /\ pending = NoPending
    /\ unswept = <<>>
    /\ input \in FnInputs
    /\ output = NoOutput

NextFn ==
    \/ Validate
    \/ Sign
    \/ ClientIP
    \/ Sanitize

SpecFn == InitFn /\ [][NextFn]_vars

\* ------------------------------------------------------------------ claims
AlreadyVoted == Fail("You have already voted on this poll.")
RateLimited == Fail("Too many requests. Please try again later.")
InvalidOption == Fail("Invalid option selected.")
PollNotFound == Fail("Poll not found.")

\* the caller's last invocation was of action op and has returned
Returned(c, op) == call[c].op = op /\ call[c].pc = "done"

\* C1: in every reachable state the votes table holds at most one row for
\* each (poll, signature) pair, whatever createPoll, updatePoll, deletePoll
\* and submitVote calls ran and however their steps interleaved.
C1_UniqueVotePerSignature ==
    \A v \in DOMAIN votes :
        /\ votes[v] = 1
        /\ \A w \in DOMAIN votes :
              (w.poll_id = v.poll_id /\ w.signature = v.signature) => w = v

\* a vote is stored and a second submitVote for its poll and signature has
\* been turned away
C1_Witness ==
    \E c \in Callers :
        /\ Returned(c, "submitVote")
        /\ call[c].res = AlreadyVoted
        /\ votesOf(votes, call[c].poll, call[c].sig) # {}

\* the submitVote of c found its poll, passed the rate limiter and the
\* checks on its arguments, and no vote of its signature was stored when
\* it began
Raced(c) ==
    /\ Returned(c, "submitVote")
    /\ ~call[c].prior
    /\ call[c].idx >= 0
    /\ call[c].sig # NoSig
    /\ call[c].res \notin {RateLimited, PollNotFound}

\* C2: two submitVote calls in flight together, with the same poll and
\* signature, both admitted and with a valid option index, end with one
\* {ok: true} and one "You have already voted on this poll."; one row is
\* stored, the loser made no further insert.
C2_OneWinnerOneConflict ==
    \A c, d \in Callers :
        (/\ c # d
         /\ Raced(c) /\ Raced(d)
         /\ call[c].poll = call[d].poll
         /\ call[c].sig = call[d].sig
         /\ call[c].poll \in DOMAIN polls)
        => /\ {call[c].res, call[d].res} = {Ok, AlreadyVoted}
           /\ Cardinality(votesOf(votes, call[c].poll, call[c].sig)) = 1

C2_Witness ==
    /\ Raced("c1") /\ Raced("c2")
    /\ call["c1"].poll = call["c2"].poll
    /\ call["c1"].sig = call["c2"].sig
    /\ call["c1"].poll \in DOMAIN polls
    /\ call["c1"].res = AlreadyVoted
    /\ call["c2"].res = Ok

\* the votes of poll id stored for the sessions of caller c
votesBy(c, id) == {v \in DOMAIN votes : v.poll_id = id /\ v.user_id \in Sessions(c)}

\* C3: a requester with one user-agent and ip gets at most one vote stored
\* per poll, because submitVote checks the signature against the requester.
C3_OneVotePerRequester ==
    \A c \in Callers, id \in PollIds : Cardinality(votesBy(c, id)) <= 1

\* C4: a step that changes or removes a poll is the store step of an
\* updatePoll or deletePoll whose authenticated user is the poll's owner;
\* the same calls by anyone else, or by nobody, leave every poll as it was.
C4_OwnerOnlyMutation ==
    [][\A id \in DOMAIN polls :
          (id \notin DOMAIN polls' \/ polls'[id] # polls[id])
          => \A c \in Callers :
                call'[c] # call[c]
                => /\ call[c].op \in {"updatePoll", "deletePoll"}
                   /\ call[c].pc = "body"
                   /\ call[c].poll = id
                   /\ call[c].user # NoUser
                   /\ call[c].user = polls[id].user_id
                   /\ call'[c].res = Ok]_vars

\* an updatePoll or deletePoll aimed at another user's poll has returned
\* and the poll is there, with its owner
C4_Witness ==
    /\ \E c \in Callers :
          /\ call[c].op \in {"updatePoll", "deletePoll"}
          /\ call[c].pc = "done"
          /\ call[c].target = "foreign"
          /\ call[c].poll \in DOMAIN polls
          /\ polls[call[c].poll].user_id # call[c].user

\* C5: every stored vote's option index is at least 0 and less than the
\* number of options of its poll, also after updatePoll shortened the list.
C5_IndexInRange ==
    \A v \in DOMAIN votes :
        /\ v.poll_id \in DOMAIN polls
        /\ v.option_index >= 0
        /\ v.option_index < Len(polls[v.poll_id].options)

\* C6: a submitVote on an existing poll with an option index at or past the
\* poll's option count, with a signature not yet used, returns "Invalid
\* option selected." and stores no vote.
C6_RejectsIndexPastEnd ==
    \A c \in Callers :
        (/\ Returned(c, "submitVote")
         /\ call[c].res \notin {RateLimited, PollNotFound}
         /\ ~call[c].prior
         /\ call[c].poll \in DOMAIN polls
         /\ call[c].idx >= Len(polls[call[c].poll].options)
         /\ \A d \in Callers : ~Returned(d, "updatePoll"))
        => /\ call[c].res = InvalidOption
           /\ votesOf(votes, call[c].poll, call[c].sig) = {}

\* C7: once a vote of (p, sig) is stored, a later submitVote(p, j, sig) with
\* any index j >= 0 that the rate limiter admits and that finds p in place
\* returns "You have already voted on this poll." and the votes table,
\* the stored index with it, is as before.
C7_LaterVoteRefused ==
    [][\A c \in Callers :
          (/\ call[c].op = "submitVote"
           /\ call[c].pc \in {"body", "insert"}
           /\ call'[c].pc = "done"
           /\ call[c].prior
           /\ call[c].idx >= 0
           /\ call[c].poll \in DOMAIN polls)
          => /\ call'[c].res = AlreadyVoted
             /\ votes' = votes]_vars

\* a later vote for another option was refused and the first vote stands
C7_Witness ==
    \E c \in Callers :
        /\ Returned(c, "submitVote")
        /\ call[c].prior
        /\ call[c].res = AlreadyVoted
        /\ \E v \in votesOf(votes, call[c].poll, call[c].sig) :
              v.option_index # call[c].idx

\* the deletePoll of an authenticated caller c met a poll in state target
Deleted(c, target) ==
    /\ Returned(c, "deletePoll")
    /\ call[c].user # NoUser
    /\ call[c].target = target

C9_FixedWindow ==
    rlLast.key # <<>>
    => /\ rlWin[rlLast.key].n <= MaxRequests => rlLast.allowed
       /\ rlWin[rlLast.key].n = MaxRequests + 1 => ~rlLast.allowed
       /\ rlLast.allowed => rlLast.remaining = MaxRequests - rlWin[rlLast.key].n

\* a key that was limited in an earlier window is admitted in a new one
C9_Witness ==
    /\ rlLast.key # <<>>
    /\ rlLast.allowed
    /\ rlWin[rlLast.key].n = 1
    /\ rlWin[rlLast.key].limited

\* C10: every invocation ends with one { ok, error } envelope, also when
\* createClient, getUser or the store fails; none ends with a fault.
C10_AlwaysEnvelope ==
    \A c \in Callers : call[c].pc # "threw"

\* the row v is in the votes table after the step as it was before
Kept(v) == v \in DOMAIN votes' /\ votes'[v] = votes[v]

C12_OwnerSetOnce ==
    [][\A id \in DOMAIN polls' :
          IF id \in DOMAIN polls
          THEN polls'[id].user_id = polls[id].user_id
          ELSE \E c \in Callers :
                  /\ call[c].op = "createPoll" /\ call[c].pc = "body"
                  /\ call'[c].pc = "done" /\ call'[c].res = Ok
                  /\ call[c].user \in Users
                  /\ polls'[id].user_id = call[c].user]_vars

\* the owner's updatePoll went through and the poll is still the owner's
C12_Witness ==
    \E c \in Callers :
        /\ Returned(c, "updatePoll") /\ call[c].res = Ok
        /\ call[c].poll \in DOMAIN polls
        /\ polls[call[c].poll].user_id = call[c].user

\* i and j are two places of the list holding the same text but for case
SameIgnoringCase(opts, i, j) == i # j /\ toLowerCase(opts[i]) = toLowerCase(opts[j])

\* the question and the options are within the bounds of the schemas and
\* no two options are the same but for case
WithinBounds(q, opts) ==
    /\ Len(q) >= QuestionMin /\ Len(q) <= QuestionMax
    /\ Len(opts) >= OptionsMin /\ Len(opts) <= OptionsMax
    /\ \A i \in 1..Len(opts) : Len(opts[i]) >= OptionMin /\ Len(opts[i]) <= OptionMax
    /\ \A i, j \in 1..Len(opts) : ~SameIgnoringCase(opts, i, j)

\* C13 as stated: of the form as submitted, an option list with two options
\* equal but for case is rejected, and a question and options within the
\* bounds, no two options equal but for case, are accepted.
C13_RawInputValidated ==
    (input.fn = "validate" /\ output # NoOutput)
    => /\ (\E i, j \in 1..Len(input.arg.options) :
              SameIgnoringCase(input.arg.options, i, j))
          => output.error # NoError
       /\ WithinBounds(input.arg.question, input.arg.options)
          => output.error = NoError

\* C13: with empty option entries dropped, a list with two options equal
\* but for case is rejected; a question and options that are within the
\* bounds, no two options equal but for case, once sanitizeText has been
\* applied to each, are accepted.
C13_SanitizedInputValidated ==
    (input.fn = "validate" /\ output # NoOutput)
    => /\ (\E i, j \in 1..Len(filterBoolean(input.arg.options)) :
              SameIgnoringCase(filterBoolean(input.arg.options), i, j))
          => output.error # NoError
       /\ WithinBounds(sanitizedQuestion(input.arg), sanitizedOptions(input.arg))
          => output.error = NoError

\* ten options, the last a repeat of the first in another case, with a
\* question of the greatest length, were rejected for the repeat
C13_Witness ==
    /\ input.fn = "validate"
    /\ Len(input.arg.options) = OptionsMax
    /\ Len(input.arg.question) = QuestionMax
    /\ output # NoOutput
    /\ output.error = "Options must be unique (case-insensitive)"

OneInputChanged(a, b) ==
    Cardinality({f \in {"pollId", "userAgent", "ip"} : a[f] # b[f]}) = 1

\* C15: changing one of pollId, userAgent and ip, the ip also between none
\* and some, and keeping the other two changes the signed text and the
\* signature.
C15_OneInputChangesSignature ==
    (input.fn = "sign" /\ output # NoOutput /\ OneInputChanged(input.arg, input.other))
    => /\ output.data # output.otherData
       /\ output.signature # output.otherSignature

\* the same poll and user-agent signed without an ip and with one
C15_Witness ==
    /\ input.fn = "sign" /\ output # NoOutput
    /\ OneInputChanged(input.arg, input.other)
    /\ input.arg.ip = NoHeader /\ input.other.ip # NoHeader
    /\ output.signature # output.otherSignature

\* C16: getPollById and getUserPolls never return a poll of another owner.
\* getUserPolls returns exactly the polls of the session user that are in
\* the table when it reads; getPollById(id) returns the poll when the
\* session user owns it and otherwise no poll with an error; a caller with
\* no session gets no poll and an error from either.
\* the step begins an invocation of op by the caller
Begins(c, op) ==
    /\ calls' = calls + 1
    /\ call'[c].op = op
    /\ \A d \in Callers \ {c} : call'[d] = call[d]
ReturnedIds(rows) == {rows[k].id : k \in 1..Len(rows)}
C16_ReadsOwnPollsOnly ==
    [][\A c \in Callers :
         /\ Begins(c, "getUserPolls") =>
              LET r == call'[c].res
                  u == call'[c].user
              IN /\ \A k \in 1..Len(r.polls) : r.polls[k].user_id = u
                 /\ u # NoUser =>
                      /\ ReturnedIds(r.polls) = {i \in DOMAIN polls : polls[i].user_id = u}
                      /\ Len(r.polls) = Cardinality(ReturnedIds(r.polls))
                      /\ \A k \in 1..Len(r.polls) :
                            r.polls[k] = pollRow(polls, r.polls[k].id)
                 /\ u = NoUser => r.polls = <<>> /\ r.error # NoError
         /\ Begins(c, "getPollById") =>
              LET r == call'[c].res
                  u == call'[c].user
                  id == call'[c].poll
                  owns == u # NoUser /\ id \in DOMAIN polls /\ polls[id].user_id = u
              IN /\ owns => r.poll = pollRow(polls, id) /\ r.error = NoError
                 /\ ~owns => r.poll = NoPoll /\ r.error # NoError
      ]_vars

\* C16 witness: with a poll of each user in the table, the first caller has
\* listed its polls and got its own one only, and the second caller has
\* asked for the first caller's poll by id and got none.
C16_Witness ==
    /\ \E i, j \in DOMAIN polls : polls[i].user_id = "u1" /\ polls[j].user_id = "u2"
    /\ call["c1"].op = "getUserPolls" /\ call["c1"].pc = "done"
    /\ Len(call["c1"].res.polls) = 1
    /\ call["c2"].op = "getPollById" /\ call["c2"].pc = "done"
    /\ call["c2"].user = "u2"
    /\ call["c2"].poll \in DOMAIN polls /\ polls[call["c2"].poll].user_id = "u1"
    /\ call["c2"].res.poll = NoPoll

\* the step is a call of checkRateLimit on the key
Checks(key) == rlWin' # rlWin /\ rlLast'.key = key

\* C17: with the maximum fixed at MaxRequests, every stored count is at
\* least 1 and at most the maximum, and a check made inside the window of an
\* entry whose count has reached the maximum is rejected and leaves the
\* count as it is.
C17_CountWithinLimit ==
    [][/\ \A k \in DOMAIN rateLimitStore' :
            1 <= rateLimitStore'[k].count /\ rateLimitStore'[k].count <= MaxRequests
       /\ \A k \in DOMAIN rateLimitStore :
            (/\ Checks(k)
             /\ now <= rateLimitStore[k].resetTime
             /\ rateLimitStore[k].count >= MaxRequests)
            => /\ ~rlLast'.allowed
               /\ rateLimitStore' = rateLimitStore
      ]_vars

\* C17 witness: a check was rejected and the count of its key stands at the
\* maximum
C17_Witness ==
    /\ rlLast.key \in DOMAIN rateLimitStore
    /\ ~rlLast.allowed
    /\ rateLimitStore[rlLast.key].count = MaxRequests

\* C20: a check on a key starts a new window (count 1, resetTime now +
\* window, admitted) exactly when the key has no entry or now is past the
\* entry's resetTime; a check at the resetTime or before it is counted in
\* the existing window (the count grows by one below the maximum and stays
\* at it) and the resetTime stays.
C20_ResetOnlyPastResetTime ==
    [][\A req \in RLRequests :
         LET k == rateLimitKey(getClientIP(req.headers), req.action)
             fresh == k \notin DOMAIN rateLimitStore
             past == ~fresh /\ now > rateLimitStore[k].resetTime
         IN Checks(k) =>
              /\ (fresh \/ past) =>
                   /\ rateLimitStore'[k] = [count |-> 1, resetTime |-> now + WindowMs]
                   /\ rlLast'.allowed
                   /\ rlLast'.resetTime = now + WindowMs
              /\ ~(fresh \/ past) =>
                   /\ rateLimitStore'[k].resetTime = rateLimitStore[k].resetTime
                   /\ rlLast'.resetTime = rateLimitStore[k].resetTime
                   /\ rateLimitStore'[k].count =
                        IF rateLimitStore[k].count < MaxRequests
                        THEN rateLimitStore[k].count + 1
                        ELSE rateLimitStore[k].count
                   /\ rlLast'.allowed <=> rateLimitStore[k].count < MaxRequests
      ]_vars

\* C20 witness: the last check was made at the very resetTime of its key's
\* entry and was counted as the second call of that window
C20_Witness ==
    /\ rlLast.key \in DOMAIN rateLimitStore
    /\ rlLast.at = rateLimitStore[rlLast.key].resetTime
    /\ rlLast.at = now
    /\ rlLast.allowed
    /\ rateLimitStore[rlLast.key].count = 2

Min(a, b) == IF a < b THEN a ELSE b
DoneRequests == {p \in Requests : pending[p].pc = "done"}
AdmittedRequests == {p \in DoneRequests : pending[p].allowed}
\* the calls counted in the window before the requests made at once
CountedBefore == IF ConcKey \in DOMAIN rlWin
                 THEN rlWin[ConcKey].n - Cardinality(DoneRequests)
                 ELSE 0

\* C18: calls of checkRateLimit on one key that run at once inside one
\* window are counted one by one under every interleaving: of N calls that
\* have returned, as many are admitted as the window had room for, and the
\* stored count is the calls counted before plus the admitted ones (min(N,
\* max) of each in a new window).
C18_ConcurrentChecksCounted ==
    LET n == Cardinality(DoneRequests)
        room == MaxRequests - CountedBefore
    IN n > 0 =>
         /\ Cardinality(AdmittedRequests) = Min(n, room)
         /\ rateLimitStore[ConcKey].count = CountedBefore + Min(n, room)

\* C18 witness: a request called while the window had room is still at its
\* await, and meanwhile the requests that resumed before it have filled the
\* window and one of them was rejected
C18_Witness ==
    \E p, q \in Requests :
        /\ pending[p].pc = "awaiting"
        /\ ConcKey \in DOMAIN pending[p].seen
        /\ pending[p].seen[ConcKey].count < MaxRequests
        /\ pending[q].pc = "done" /\ ~pending[q].allowed
        /\ rateLimitStore[ConcKey].count = MaxRequests

NotLoggedIn == Fail("You must be logged in")
\* the window of the caller's key for the action is open and full
WindowFull(c, op) ==
    LET key == rateLimitKey(getClientIP(Headers(c)), op)
    IN /\ key \in DOMAIN rateLimitStore
       /\ now <= rateLimitStore[key].resetTime
       /\ rateLimitStore[key].count >= MaxRequests

\* C19: createPoll and updatePoll check the rate limit, then the input, then
\* the session, then call the store, and return the error of the first check
\* that fails: a call made on a full window returns the rate-limit error
\* whatever its form and session; an admitted call with an invalid form
\* returns the validation error also when it has no session; an admitted
\* call with a valid form and no session returns the login error; only a call
\* that passes all three gets the store's answer.
C19_ChecksInOrder ==
    [][\A c \in Callers, op \in {"createPoll", "updatePoll"} :
         /\ Begins(c, op) =>
              IF WindowFull(c, op)
              THEN call'[c].pc = "done" /\ call'[c].res = RateLimited
              ELSE call'[c].pc = "body"
         /\ (call[c].op = op /\ call[c].pc = "body" /\ call'[c].pc = "done") =>
              IF safeParse[call[c].form].error # NoError
              THEN call'[c].res = Fail(safeParse[call[c].form].error)
              ELSE IF call[c].user = NoUser
              THEN call'[c].res = NotLoggedIn
              ELSE call'[c].res \notin
                     {RateLimited, NotLoggedIn} \cup
                     {Fail(safeParse[f].error) : f \in FormNames}
      ]_vars

\* C19 witness: a call with an invalid form and no session was admitted and
\* returned the validation error, and a later call with an invalid form was
\* made on a full window and returned the rate-limit error
C19_Witness ==
    \E op \in {"createPoll", "updatePoll"} :
        /\ Returned("c2", op)
        /\ call["c2"].user = NoUser
        /\ safeParse[call["c2"].form].error # NoError
        /\ call["c2"].res = Fail(safeParse[call["c2"].form].error)
        /\ Returned("c1", op)
        /\ safeParse[call["c1"].form].error # NoError
        /\ call["c1"].res = RateLimited

\* the step is a run of the cleanup callback that deleted something: the
\* store changes and no check was made
Sweeps == rateLimitStore' # rateLimitStore /\ rlWin' = rlWin

\* C21: a run of the periodic cleanup removes exactly the entries whose
\* window has expired (now > resetTime) and leaves every other entry's count
\* and resetTime as they were; it needs no check call to run.
C21_SweepRemovesExpiredOnly ==
    [][Sweeps =>
         /\ DOMAIN rateLimitStore' =
              {k \in DOMAIN rateLimitStore : now <= rateLimitStore[k].resetTime}
         /\ \A k \in DOMAIN rateLimitStore' : rateLimitStore'[k] = rateLimitStore[k]
      ]_vars

\* C21 witness: the cleanup has deleted the expired entry of one key (the
\* key has a history and no entry) and kept the entry of another whose
\* window ends at this very millisecond
C21_Witness ==
    \E k, j \in DOMAIN rlWin :
        /\ k \notin DOMAIN rateLimitStore
        /\ j \in DOMAIN rateLimitStore
        /\ rateLimitStore[j].resetTime = now

SignatureRequired == Fail("Vote signature required.")

\* C22: a submitVote without a signature, or with the empty one, that the
\* rate limiter admits and that finds its poll, with an option index of the
\* poll, returns "Vote signature required." and writes no vote; no step
\* stores a vote whose signature is missing or empty.
C22_SignatureRequired ==
    [][/\ \A c \in Callers :
            (/\ call[c].op = "submitVote" /\ call[c].pc = "body"
             /\ call'[c].pc # "body"
             /\ call[c].poll \in DOMAIN polls
             /\ call[c].idx >= 0
             /\ call[c].idx < Len(polls[call[c].poll].options)
             /\ call[c].sig = NoSig)
            => /\ call'[c].pc = "done"
               /\ call'[c].res = SignatureRequired
               /\ votes' = votes
       /\ \A v \in DOMAIN votes' : v.signature # NoSig
      ]_vars

\* C22 witness: a vote without a signature for the first option of a poll in
\* place has been refused for its missing signature
C22_Witness ==
    \E c \in Callers :
        /\ Returned(c, "submitVote")
        /\ call[c].sig = NoSig
        /\ call[c].idx = 0
        /\ call[c].poll \in DOMAIN polls
        /\ call[c].res = SignatureRequired
        /\ votes = <<>>

ValidationMessages ==
    {"Question is required", "Question must be at least 10 characters",
     "Question must be less than 500 characters", "Option cannot be empty",
     "Option must be at least 2 characters", "Option must be less than 200 characters",
     "At least 2 options are required", "Maximum 10 options allowed",
     "Options must be unique (case-insensitive)"}

\* C23: createPoll and updatePoll apply the length and uniqueness rules to
\* the text sanitizeText returns: the form is accepted exactly when the
\* sanitized question and options are within the bounds, a question whose
\* submitted text is long enough and whose sanitized text is too short is
\* refused with a validation message, and the values handed to the store
\* are the sanitized ones.
C23_SanitizedTextValidatedAndStored ==
    (input.fn = "validate" /\ output # NoOutput)
    => LET q == sanitizeText(input.arg.question)
           given == filterBoolean(input.arg.options)
           opts == [i \in 1..Len(given) |-> sanitizeText(given[i])]
       IN /\ output.error = NoError <=> WithinBounds(q, opts)
          /\ output.error # NoError => output.error \in ValidationMessages
          /\ (Len(input.arg.question) >= QuestionMin /\ Len(q) < QuestionMin)
             => output.error \in {"Question is required",
                                  "Question must be at least 10 characters"}
          /\ (/\ questionIssue(q) = NoError
              /\ Len(opts) >= OptionsMin /\ Len(opts) <= OptionsMax
              /\ \E i \in 1..Len(opts) : Len(given[i]) >= OptionMin /\ Len(opts[i]) < OptionMin)
             => output.error \in {"Option cannot be empty",
                                  "Option must be at least 2 characters",
                                  "Option must be less than 200 characters"}
          /\ output.error = NoError
             => output.question = q /\ output.options = opts

\* C23 witness: a question of the least length as submitted, one character
\* of which sanitizing removes, was refused as too short
C23_Witness ==
    /\ input.fn = "validate" /\ output # NoOutput
    /\ Len(input.arg.question) = QuestionMin
    /\ Len(sanitizeText(input.arg.question)) = QuestionMin - 1
    /\ output.error = "Question must be at least 10 characters"

\* the text of s before its first ",", all of s when it holds none
BeforeComma(s) ==
    IF \E k \in 1..Len(s) : s[k] = ","
    THEN SubSeq(s, 1, (CHOOSE k \in 1..Len(s) :
                          s[k] = "," /\ \A m \in 1..(k - 1) : s[m] # ",") - 1)
    ELSE s

\* C24: getClientIP returns the first comma-separated entry of
\* x-forwarded-for, trimmed, when that header carries a value; otherwise
\* x-real-ip when it carries one; otherwise cf-connecting-ip when it carries
\* one; otherwise 127.0.0.1. A header lower in this order never overrides a
\* higher one that carries a value.
C24_HeaderPriority ==
    (input.fn = "ip" /\ output # NoOutput)
    => LET h == input.arg
       IN /\ h.forwardedFor # <<>> => output.ip = Trim(BeforeComma(h.forwardedFor))
          /\ (h.forwardedFor = <<>> /\ h.realIP # <<>>) => output.ip = h.realIP
          /\ (h.forwardedFor = <<>> /\ h.realIP = <<>> /\ h.cfConnectingIP # <<>>)
             => output.ip = h.cfConnectingIP
          /\ (h.forwardedFor = <<>> /\ h.realIP = <<>> /\ h.cfConnectingIP = <<>>)
             => output.ip = <<"1", "2", "7", ".", "0", ".", "0", ".", "1">>

\* C24 witness: with all three headers sent, the first entry of
\* x-forwarded-for was returned without the spaces around it
C24_Witness ==
    /\ input.fn = "ip" /\ output # NoOutput
    /\ input.arg.forwardedFor = <<" ", "7", " ", ",", "8">>
    /\ input.arg.realIP # <<>> /\ input.arg.cfConnectingIP # <<>>
    /\ output.ip = <<"7">>

\* the step ends an invocation of the caller with { ok: true }
ReturnsOk(c) == call'[c] # call[c] /\ call'[c].pc = "done" /\ call'[c].res.ok

\* C25: an invocation of createPoll, updatePoll, deletePoll or submitVote
\* that returns { ok: false }, for any of its reasons, changes neither the
\* polls nor the votes: every step that changes a table is the last step of
\* an invocation that returns { ok: true }, and the step that ends an
\* invocation with { ok: false } leaves both tables as they are.
C25_FailedCallChangesNothing ==
    [][/\ tables' # tables => \E c \in Callers : ReturnsOk(c)
       /\ \A c \in Callers :
            (call'[c] # call[c] /\ call'[c].pc = "done" /\ ~call'[c].res.ok)
            => tables' = tables
      ]_vars

\* C25 witness: with a poll and a vote stored, a caller's vote was refused as
\* a duplicate, and the poll and the vote are in place
C25_Witness ==
    /\ polls # <<>> /\ votes # <<>>
    /\ \E c \in Callers :
          /\ Returned(c, "submitVote")
          /\ call[c].res = AlreadyVoted

\* C26: every stored vote is a vote of a poll that is stored: whether a
\* deletePoll of the poll's owner runs before the lookup of a submitVote on
\* the poll, between its lookup and its insert, or after its insert, no vote
\* of the deleted poll is left.
C26_NoVoteWithoutPoll ==
    \A v \in DOMAIN votes : v.poll_id \in DOMAIN polls

\* C26 witness: a submitVote found its poll, the owner's deletePoll removed
\* the poll before the insert, and the insert was refused
C26_Witness ==
    \E c, d \in Callers :
        /\ Returned(c, "submitVote")
        /\ call[c].res = Fail(getFriendlyErrorMessage(dbError("42501")))
        /\ Returned(d, "deletePoll") /\ call[d].res.ok
        /\ call[c].poll = call[d].poll
        /\ call[c].poll \notin DOMAIN polls
        /\ votes = <<>>

\* C27: the text generateVoteSignature signs tells its inputs apart: two
\* triples (pollId, userAgent, ip) that differ in any way, with or without
\* ":" in them, never give the same signed text or the same signature.
C27_InjectiveEncoding ==
    (input.fn = "sign" /\ output # NoOutput /\ input.arg # input.other)
    => /\ output.data # output.otherData
       /\ output.signature # output.otherSignature

\* C28: a rejected check leaves the entry of its key as it is, count and
\* resetTime, so rejected attempts do not lengthen the window: however many
\* attempts were rejected, the first check on the key made more than a
\* window's length after the window began is admitted.
C28_RejectionKeepsWindow ==
    [][\A k \in DOMAIN rlWin :
         Checks(k) =>
           /\ ~rlLast'.allowed => rateLimitStore' = rateLimitStore
           /\ now > rlWin[k].start + WindowMs => rlLast'.allowed
      ]_vars

\* C28 witness: after MaxRejected attempts on a key were rejected, the next
\* check on the key, made once the window was over, was admitted
C28_Witness ==
    /\ rlLast.key \in DOMAIN rlWin
    /\ rlLast.allowed
    /\ rlWin[rlLast.key].n = 1
    /\ rlWin[rlLast.key].refusedBefore = MaxRejected
    /\ rlLast.at = rlWin[rlLast.key].start

\* C29: the cleanup cannot be told from the results of the checks: whatever
\* checks and clock advances are made and wherever runs of the cleanup fall
\* between them, each check returns the allowed, remaining and resetTime it
\* returns in the run of the same checks and advances without any cleanup.
C29_SweepUnobservable ==
    [][\A req \in RLRequests :
         LET k == rateLimitKey(getClientIP(req.headers), req.action)
             r == checkRateLimit(unswept, k, now, WindowMs, MaxRequests)
         IN Checks(k) =>
              /\ rlLast'.allowed = r.allowed
              /\ rlLast'.remaining = r.remaining
              /\ rlLast'.resetTime = r.resetTime
      ]_vars

\* C29 witness: a check was made on a key whose entry the cleanup had
\* deleted, while the entry of the other key, deleted too, is still missing
C29_Witness ==
    /\ rlLast.swept
    /\ rlLast.key \in DOMAIN rateLimitStore
    /\ DOMAIN unswept # DOMAIN rateLimitStore

\* the text holds "javascript:" in some letter case
HoldsJsScheme(s) ==
    \E i \in 1..Len(s) :
        /\ i + 10 <= Len(s)
        /\ toLowerCase(SubSeq(s, i, i + 10)) =
              <<"j", "a", "v", "a", "s", "c", "r", "i", "p", "t", ":">>

\* C30: what sanitizeText returns holds no "<", no ">" and no "javascript:"
\* in any letter case, and sanitizeText applied to it returns it unchanged.
C30_SanitizedTextClean ==
    (input.fn = "sanitize" /\ output # NoOutput)
    => /\ \A i \in 1..Len(output.text) : output.text[i] \notin {"<", ">"}
       /\ ~HoldsJsScheme(output.text)
       /\ output.again = output.text

====
